---- MODULE Spec2Model ----
(***************************************************************************)
(* gimme.js: a small HTTP/S request function.  One call of                 *)
(* gimme.request(requestOptions) normalises the options, issues one        *)
(* network request and returns a promise; a followed redirect aborts the   *)
(* request and resolves the promise with the promise of a recursive call   *)
(* on the same (mutated) options object.                                   *)
(*                                                                         *)
(* The model covers one top-level call made as a method of the exported    *)
(* object (gimme.request(...), the documented usage), so that this.request *)
(* at lines 145/151 is the same function.  The platform (node's http/https *)
(* client, its sockets and its promise machinery) is the environment: it   *)
(* delivers 'response', 'data', 'end', 'error' and socket 'timeout' events *)
(* in any order it is able to produce, and every handler runs to           *)
(* completion (single-threaded event loop; promise adoption is a microtask *)
(* that runs before the next event).                                       *)
(***************************************************************************)
EXTENDS Integers, Sequences, FiniteSets, TLC

VARIABLES
    requestOptions, \* the caller's options object, mutated in place (lines 53-60, 75, 142-149)
    attempts,       \* one record per lib.request(...) issued (line 133), in order
    promises,       \* one record per `new Promise` (line 63), in order; promises[1] is the caller's
    settler,        \* history: which handler of which attempt settled the caller's promise
    given           \* history: the options object as the caller passed it

vars == <<requestOptions, attempts, promises, settler, given>>

-----------------------------------------------------------------------------
(* Bounds of the model *)

\* largest maxRedirects the caller passes explicitly
MaxRedirects == 2
\* most 'data' chunks one response delivers
MaxChunks == 2
\* most network attempts explored for one call (caps the chains of the default of 10 redirects)
MaxAttempts == 3

-----------------------------------------------------------------------------
(* Values *)

Null == [null |-> TRUE]
Undefined == "undefined"
NoStatus == 0
NoHeaders == [server |-> "node"]
DefaultMaxRedirects == 10
DefaultTimeout == 10000

\* an object property, and the object without properties
Field(name, v) == name :> v
Absent == [f \in {} |-> Undefined]

\* url strings, kept as their parts: scheme is the literal prefix "", "http://" or "https://",
\* port the digits after ':' ("" when the url has none)
Url(scheme, host, port, path) == [scheme |-> scheme, host |-> host, port |-> port, path |-> path]

InputUrls ==
    { Url("", "a.test", "", "/"),
      Url("http://", "a.test", "8080", "/p"),
      Url("https://", "a.test", "", "/") }

\* values of a response's location header: absolute (with a hostname) or a bare path
Locations ==
    { Url("https://", "b.test", "", "/"),
      Url("", "", "", "/r") }

StatusCodes == {200, 300, 400, 500, 600}

Chunks == {"ab", "cd"}

TransportErrors ==
    { [code |-> "ECONNREFUSED", syscall |-> "connect"],
      [code |-> "ECONNRESET", syscall |-> Undefined] }

\* Texts whose length matters are kept as sequences of characters, each a UTF-16 code
\* unit; a character outside ASCII is written by its code point
Chars(text) == { text[k] : k \in DOMAIN text }

\* the string is left in the case it was given in
NoUpper(s) == s

\* String.prototype.toUpperCase (lines 54, 56) on the method and contentType strings in use
Upper(s) ==
    CASE s = "get" -> "GET"
      [] s = "post" -> "POST"
      [] s = "json" -> "JSON"
      [] s = "Form" -> "FORM"
      [] s = "xml" -> "XML"
      [] OTHER -> s

\* the bytes of a character in UTF-8
Utf8Bytes(c) ==
    CASE c = "U+00E9" -> 2
      [] c = "U+20AC" -> 3
      [] OTHER -> 1

\* Buffer.byteLength(text): what Content-Length has to announce
RECURSIVE ByteLength(_)
ByteLength(text) == IF text = <<>> THEN 0 ELSE Utf8Bytes(Head(text)) + ByteLength(Tail(text))

\* request bodies: objects whose properties are strings, kept as key/value pairs in order
Body(pairs) == [pairs |-> pairs]
Pair(key, value) == [key |-> key, value |-> value]

InputBodies ==
    { Body(<<>>),
      Body(<<Pair(<<"q">>, <<"a", " ", "b">>)>>),
      Body(<<Pair(<<"m">>, <<"U+00E9">>), Pair(<<"n">>, <<"1">>)>>) }

\* JSON.stringify(requestOptions.body) (line 109): {"key":"value",...}; characters
\* outside ASCII are not escaped
RECURSIVE JSONmembers(_)
JSONmembers(pairs) ==
    IF pairs = <<>> THEN <<>>
    ELSE <<"\"">> \o Head(pairs).key \o <<"\"", ":", "\"">> \o Head(pairs).value \o <<"\"">>
         \o (IF Tail(pairs) = <<>> THEN <<>> ELSE <<",">> \o JSONmembers(Tail(pairs)))

JSONstringifyBody(body) == <<"{">> \o JSONmembers(body.pairs) \o <<"}">>

\* querystring.escape of one character: percent-encoded UTF-8 unless unreserved
QueryEscape(c) ==
    CASE c = " " -> "%20"
      [] c = "U+00E9" -> "%C3%A9"
      [] c = "U+20AC" -> "%E2%82%AC"
      [] OTHER -> c

RECURSIVE Escaped(_)
Escaped(text) == IF text = <<>> THEN "" ELSE QueryEscape(Head(text)) \o Escaped(Tail(text))

\* querystring.stringify(requestOptions.body) (line 106): key=value&key=value
RECURSIVE QueryString(_)
QueryString(pairs) ==
    IF pairs = <<>> THEN ""
    ELSE Escaped(Head(pairs).key) \o "=" \o Escaped(Head(pairs).value)
         \o (IF Tail(pairs) = <<>> THEN "" ELSE "&" \o QueryString(Tail(pairs)))

\* a JavaScript string value, as opposed to an object
Str(s) == [string |-> s]

\* JSON.stringify of an {code, msg} object (lines 70, 208)
JSONstringify(o) == Str("{\"code\":\"" \o o.code \o "\",\"msg\":\"" \o o.msg \o "\"}")

\* JSON.stringify(response.headers) (line 185)
StringifyHeaders(h) ==
    IF "location" \in DOMAIN h
    THEN Str("{\"location\":\"" \o h.location.scheme \o h.location.host \o h.location.path \o "\"}")
    ELSE Str("{\"server\":\"node\"}")

-----------------------------------------------------------------------------
(* Promises (line 63): settle-once; resolve(p) with a promise p follows p *)

Pending == [state |-> "pending"]
Fulfilled(v) == [state |-> "fulfilled", value |-> v]
Rejected(r) == [state |-> "rejected", reason |-> r]
Following(j) == [state |-> "following", promise |-> j]

IsSettled(p) == p.state \in {"fulfilled", "rejected"}

\* resolve/reject act only on a promise that was neither settled nor resolved with a promise
CanSettle(p) == p.state = "pending"

\* promises j, j-1, ... that were resolved with their successor take its outcome
RECURSIVE Adopt(_, _)
Adopt(ps, j) ==
    IF j = 0 THEN ps
    ELSE IF ps[j].state = "following" /\ IsSettled(ps[ps[j].promise])
         THEN Adopt([ps EXCEPT ![j] = ps[ps[j].promise]], j - 1)
         ELSE ps

\* resolve(v) / reject(r) of promise i, p the new state
Settle(ps, i, p) ==
    IF CanSettle(ps[i]) THEN Adopt([ps EXCEPT ![i] = p], i - 1) ELSE ps

\* the caller's view of the returned promise
Outcome == IF promises = <<>> THEN [state |-> "none"]
           ELSE IF IsSettled(promises[1]) THEN promises[1] ELSE Pending

\* history: the handler h of attempt i settles the caller's promise by this call
Settler(ps, i, p, h) ==
    IF ~IsSettled(ps[1]) /\ IsSettled(Settle(ps, i, p)[1])
    THEN [attempt |-> i, handler |-> h]
    ELSE settler

-----------------------------------------------------------------------------
(* request(requestOptions), lines 51-217: the synchronous part *)

Has(o, f) == f \in DOMAIN o

\* lines 53-60: defaults
Normalize(o) ==
    [url |-> IF ~Has(o, "url") \/ o.url = Null THEN Null ELSE o.url,
     method |-> IF ~Has(o, "method") THEN "GET" ELSE Upper(o.method),
     body |-> IF ~Has(o, "body") THEN Null ELSE o.body,
     contentType |-> IF ~Has(o, "contentType") THEN "FORM" ELSE Upper(o.contentType),
     followRedirect |-> IF ~Has(o, "followRedirect") THEN TRUE ELSE o.followRedirect,
     maxRedirects |-> IF ~Has(o, "maxRedirects") THEN DefaultMaxRedirects ELSE o.maxRedirects,
     timeout |-> IF ~Has(o, "timeout") THEN DefaultTimeout ELSE o.timeout,
     headers |-> IF ~Has(o, "headers") THEN Absent ELSE o.headers]

\* line 74: url.search(/^http[s]?\:\/\//) == -1
LacksProtocol(u) == u.scheme \notin {"http://", "https://"}

\* the protocol is prefixed whether or not the url has one
BackfillAlways(u) == [u EXCEPT !.scheme = "http://" \o @]

\* lines 74-76
Backfill(u) == IF LacksProtocol(u) THEN [u EXCEPT !.scheme = "http://"] ELSE u

\* url.parse (lines 79, 141, 148); without a protocol the whole string is the path
urlParse(u) ==
    IF LacksProtocol(u)
    THEN [protocol |-> Undefined, hostname |-> Undefined, port |-> Undefined,
          path |-> u.host \o (IF u.port = "" THEN "" ELSE ":" \o u.port) \o u.path]
    ELSE [protocol |-> IF u.scheme = "https://" THEN "https:" ELSE "http:",
          hostname |-> u.host,
          port |-> IF u.port = "" THEN Undefined ELSE u.port,
          path |-> u.path]

\* every url without a port gets port 80
PortAlways80(requestObject) ==
    IF requestObject.port = Undefined THEN "80" ELSE requestObject.port

\* lines 88-97
Port(requestObject) ==
    IF requestObject.port = Undefined /\ requestObject.protocol = Undefined THEN "80"
    ELSE IF requestObject.port = Undefined /\ requestObject.protocol = "https:" THEN "443"
    ELSE IF requestObject.port = Undefined /\ requestObject.protocol = "http:" THEN "80"
    ELSE requestObject.port

\* line 130
Lib(u) == IF u.scheme = "https://" THEN "https" ELSE "http"

\* lines 104-106: a GET carries the body as a query string
Path(n, path) ==
    IF n.body # Null /\ n.method = "GET"
    THEN path \o "?" \o QueryString(n.body.pairs)
    ELSE path

\* lines 102-109: the payload of a request that is not a GET
HasPayload(n) == n.body # Null /\ n.method # "GET"

\* lines 112-125
ContentType(contentType) ==
    IF contentType = "JSON" THEN "application/json" ELSE "application/x-www-form-urlencoded"

\* postData.length (lines 115, 119, 123): the number of UTF-16 code units
ContentLength(postData) == Len(postData)

\* lines 100, 112-125: options.headers is requestOptions.headers itself, with the two
\* headers set on it when a payload is sent
Headers(n) ==
    IF HasPayload(n)
    THEN Field("Content-Type", ContentType(n.contentType))
         @@ Field("Content-Length", ContentLength(JSONstringifyBody(n.body)))
         @@ n.headers
    ELSE n.headers

\* lines 82-100, 130; n the normalised options with the protocol backfilled
Options(n) ==
    LET requestObject == urlParse(n.url)
    IN  [hostname |-> requestObject.hostname, path |-> Path(n, requestObject.path),
         port |-> Port(requestObject), lib |-> Lib(n.url),
         method |-> n.method, headers |-> Headers(n)]

\* lines 212-214: what request.write is given, if it is called
Written(n) == IF HasPayload(n) THEN [postData |-> JSONstringifyBody(n.body)] ELSE Null

\* line 133: the request object just issued; url is requestOptions.url as this
\* invocation found it (history)
NewRequest(n, url) ==
    [url |-> url, options |-> Options(n), written |-> Written(n),
     state |-> "issued", abortedBy |-> "none",
     statusCode |-> NoStatus, headers |-> NoHeaders, body |-> <<>>,
     listening |-> FALSE, ended |-> FALSE, errored |-> FALSE]

\* the missing url is reported with the wrong text
UrlMissingAsTimeout == [code |-> "ERR", msg |-> "timeout"]

UrlMissing == [code |-> "ERR", msg |-> "URL MISSING"]

\* One invocation of request on options o with the attempts and promises so far.
\* With a null url the executor rejects (line 70) and, having no return, goes on to
\* line 74 where null.search throws; the promise is already rejected, so the throw
\* changes nothing and line 133 is never reached.
request(o, atts, ps) ==
    LET n == Normalize(o)
    IN  IF n.url = Null
        THEN [requestOptions |-> n, attempts |-> atts,
              promises |-> Append(ps, Rejected(JSONstringify(UrlMissing)))]
        ELSE LET b == [n EXCEPT !.url = Backfill(n.url)]
             IN  [requestOptions |-> [b EXCEPT !.headers = Headers(b)],
                  attempts |-> Append(atts, NewRequest(b, n.url)),
                  promises |-> Append(ps, Pending)]

-----------------------------------------------------------------------------
(* The caller's options objects: any of url, followRedirect, maxRedirects may be absent *)

InputOptions ==
    { u @@ f @@ m :
        u \in {Absent, Field("url", Null)} \cup { Field("url", x) : x \in InputUrls },
        f \in {Absent} \cup { Field("followRedirect", b) : b \in BOOLEAN },
        m \in {Absent} \cup { Field("maxRedirects", k) : k \in 0..MaxRedirects } }

Init ==
    /\ requestOptions \in InputOptions
    /\ given = requestOptions
    /\ attempts = <<>>
    /\ promises = <<>>
    /\ settler = [attempt |-> 0, handler |-> "none"]

-----------------------------------------------------------------------------
(* Actions *)

\* gimme.request(requestOptions), the top-level call
Call ==
    /\ promises = <<>>
    /\ LET r == request(requestOptions, attempts, promises)
       IN  /\ requestOptions' = r.requestOptions
           /\ attempts' = r.attempts
           /\ promises' = r.promises
           /\ settler' = IF IsSettled(r.promises[1])
                         THEN [attempt |-> 0, handler |-> "executor"] ELSE settler
    /\ UNCHANGED given

\* line 139
IsRedirect(statusCode, headers) ==
    statusCode >= 300 /\ statusCode < 400 /\ Has(headers, "location")

\* followRedirect is not consulted
MayFollowIgnoresFlag(o) == o.maxRedirects > 0

\* the counter is not consulted
MayFollowIgnoresCount(o) == o.followRedirect

\* a redirect is still followed when the counter has reached 0
MayFollowAtZero(o) == o.followRedirect /\ o.maxRedirects >= 0

\* line 140
MayFollow(o) == o.followRedirect /\ o.maxRedirects > 0

\* lines 141-142, 147-148: the url of the next attempt
RedirectUrl(u, location) ==
    IF urlParse(location).hostname # Undefined
    THEN location
    ELSE Url("", urlParse(u).hostname, "", location.path)

\* the counter is not decremented
FollowedNoDecrement(o, location) == [o EXCEPT !.url = RedirectUrl(o.url, location)]

\* lines 143-144, 149-150: --requestOptions.maxRedirects; request.abort()
Followed(o, location) ==
    [o EXCEPT !.url = RedirectUrl(o.url, location), !.maxRedirects = o.maxRedirects - 1]

\* abort() is recorded but the request stays in flight
AbortLeavesInFlight(a, by) == [a EXCEPT !.abortedBy = by]

\* the request is not aborted at all
NoAbort(a, by) == a

Abort(a, by) ==
    IF a.state \in {"issued", "response"}
    THEN [a EXCEPT !.state = "aborted", !.abortedBy = by]
    ELSE a

ClientError(statusCode) == [code |-> "ERR", msg |-> "CLIENT ERROR: " \o ToString(statusCode)]
ServerError(statusCode) == [code |-> "ERR", msg |-> "SERVER ERROR: " \o ToString(statusCode)]

\* a status of exactly 400 is not treated as a client error
StatusCheckAbove400(ps, i, statusCode, headers) ==
    IF IsRedirect(statusCode, headers) THEN ps
    ELSE IF statusCode > 400 /\ statusCode < 500 THEN Settle(ps, i, Rejected(ClientError(statusCode)))
    ELSE IF statusCode >= 500 THEN Settle(ps, i, Rejected(ServerError(statusCode)))
    ELSE ps

\* only 4xx responses are rejected
StatusCheckClientOnly(ps, i, statusCode, headers) ==
    IF IsRedirect(statusCode, headers) THEN ps
    ELSE IF statusCode >= 400 /\ statusCode < 500 THEN Settle(ps, i, Rejected(ClientError(statusCode)))
    ELSE ps

\* lines 155-167: the promise after the status checks of a response that is not followed
StatusCheck(ps, i, statusCode, headers) ==
    IF IsRedirect(statusCode, headers) THEN ps
    ELSE IF statusCode >= 400 /\ statusCode < 500 THEN Settle(ps, i, Rejected(ClientError(statusCode)))
    ELSE IF statusCode >= 500 THEN Settle(ps, i, Rejected(ServerError(statusCode)))
    ELSE ps

\* the promise of the recursive call is dropped
ChainDropped(ps, i) == ps

\* lines 145, 151: resolve(this.request(requestOptions)); ps already holds the new promise
Chain(ps, i) == Settle(ps, i, Following(Len(ps)))

\* this.request(requestOptions) is called but neither resolved with nor returned after:
\* the callback goes on to attach the 'data' and 'end' handlers to the aborted response
FollowRedirectFallsThrough(o, atts, ps, i) ==
    request(Followed(o, atts[i].headers.location),
            [atts EXCEPT ![i] = [Abort(@, "redirect") EXCEPT !.listening = TRUE]], ps)

\* lines 141-153: abort, call request again on the mutated options, resolve with its
\* promise, return (the 'data' and 'end' handlers are never attached)
FollowRedirect(o, atts, ps, i) ==
    LET r == request(Followed(o, atts[i].headers.location),
                     [atts EXCEPT ![i] = Abort(@, "redirect")], ps)
    IN  [r EXCEPT !.promises = Chain(@, i)]

\* lines 169-189: the 'data' and 'end' handlers are attached
Collect(a) == [a EXCEPT !.state = "response", !.listening = TRUE]

\* lines 133-190: the response callback of attempt i
Response(i, statusCode, headers) ==
    /\ attempts[i].state = "issued"
    /\ LET atts == [attempts EXCEPT ![i].statusCode = statusCode, ![i].headers = headers]
       IN  IF IsRedirect(statusCode, headers) /\ MayFollow(requestOptions)
           THEN /\ Len(attempts) < MaxAttempts
                /\ LET r == FollowRedirect(requestOptions, atts, promises, i)
                   IN  /\ requestOptions' = r.requestOptions
                       /\ attempts' = r.attempts
                       /\ promises' = r.promises
                /\ UNCHANGED settler
           ELSE /\ attempts' = [atts EXCEPT ![i] = Collect(@)]
                /\ promises' = StatusCheck(promises, i, statusCode, headers)
                /\ settler' = IF promises' # promises
                              THEN [attempt |-> i, handler |-> "response"] ELSE settler
                /\ UNCHANGED requestOptions
    /\ UNCHANGED given

\* lines 173-175: a body chunk of attempt i's response
Data(i, chunk) ==
    /\ attempts[i].listening /\ ~attempts[i].ended
    /\ Len(attempts[i].body) < MaxChunks
    /\ attempts' = [attempts EXCEPT ![i].body = Append(@, chunk)]
    /\ UNCHANGED <<requestOptions, promises, settler, given>>

\* the chunks are joined last first
RECURSIVE JoinReversed(_)
JoinReversed(body) == IF body = <<>> THEN "" ELSE JoinReversed(Tail(body)) \o Head(body)

\* body.join('') (line 187)
RECURSIVE Join(_)
Join(body) == IF body = <<>> THEN "" ELSE Head(body) \o Join(Tail(body))

\* lines 183-187
RequestResult(a) ==
    [status |-> a.statusCode, headers |-> StringifyHeaders(a.headers), body |-> Join(a.body)]

\* lines 182-189: the response stream of attempt i completes
End(i) ==
    /\ attempts[i].listening /\ ~attempts[i].ended
    /\ attempts' = [attempts EXCEPT ![i].ended = TRUE,
                                     ![i].state = IF @ = "response" THEN "ended" ELSE @]
    /\ promises' = Settle(promises, i, Fulfilled(RequestResult(attempts[i])))
    /\ settler' = Settler(promises, i, Fulfilled(RequestResult(attempts[i])), "end")
    /\ UNCHANGED <<requestOptions, given>>

\* code and msg are filled from the wrong fields
ErrObjSwapped(err) == [code |-> err.syscall, msg |-> err.code]

\* lines 193-196
ErrObj(err) == [code |-> err.code, msg |-> err.syscall]

\* lines 192-198: the request of attempt i emits 'error'
Error(i, err) ==
    /\ ~attempts[i].errored
    /\ attempts[i].state \in {"issued", "response", "aborted"}
    /\ attempts' = [attempts EXCEPT ![i].errored = TRUE,
                                     ![i].state = IF @ = "aborted" THEN @ ELSE "errored"]
    /\ promises' = Settle(promises, i, Rejected(ErrObj(err)))
    /\ settler' = Settler(promises, i, Rejected(ErrObj(err)), "error")
    /\ UNCHANGED <<requestOptions, given>>

TimeoutInfo == [code |-> "ERR", msg |-> "timeout"]

\* lines 202-209: the socket of attempt i has been idle for requestOptions.timeout
Timeout(i) ==
    /\ attempts[i].state \in {"issued", "response"}
    /\ attempts' = [attempts EXCEPT ![i] = Abort(@, "timeout")]
    /\ promises' = Settle(promises, i, Rejected(JSONstringify(TimeoutInfo)))
    /\ settler' = Settler(promises, i, Rejected(JSONstringify(TimeoutInfo)), "timeout")
    /\ UNCHANGED <<requestOptions, given>>

ResponseHeaders == {NoHeaders} \cup { [location |-> l] : l \in Locations }

Next ==
    \/ Call
    \/ \E i \in DOMAIN attempts, s \in StatusCodes, h \in ResponseHeaders : Response(i, s, h)
    \/ \E i \in DOMAIN attempts, c \in Chunks : Data(i, c)
    \/ \E i \in DOMAIN attempts : End(i)
    \/ \E i \in DOMAIN attempts, e \in TransportErrors : Error(i, e)
    \/ \E i \in DOMAIN attempts : Timeout(i)

\* every handler whose event the platform owes is eventually run
LiveSpec == Init /\ [][Next]_vars /\ WF_vars(Next)

Spec == Init /\ [][Next]_vars

-----------------------------------------------------------------------------
(* The options in full: method, body and contentType too, against a server that *)
(* answers 200 or 300                                                            *)

WideUrls == InputUrls \cup { Url("", "a.test", "8080", "/") }

WideOptions ==
    { u @@ me @@ b @@ ct @@ m :
        u \in { Field("url", x) : x \in WideUrls },
        me \in {Absent} \cup { Field("method", x) : x \in {"get", "GET", "post"} },
        b \in {Absent} \cup { Field("body", x) : x \in InputBodies },
        ct \in {Absent} \cup { Field("contentType", x) : x \in {"json", "Form", "xml"} },
        m \in { Field("maxRedirects", k) : k \in 1..MaxRedirects } }

WideInit ==
    /\ requestOptions \in WideOptions
    /\ given = requestOptions
    /\ attempts = <<>>
    /\ promises = <<>>
    /\ settler = [attempt |-> 0, handler |-> "none"]

WideNext ==
    \/ Call
    \/ \E i \in DOMAIN attempts, s \in {200, 300}, h \in ResponseHeaders : Response(i, s, h)
    \/ \E i \in DOMAIN attempts : End(i)

WideSpec == WideInit /\ [][WideNext]_vars

-----------------------------------------------------------------------------
(* Vocabulary of the properties *)

Called == promises # <<>>

\* the {code, msg} objects a rejection may carry as JSON text
ErrorInfos == {[code |-> "ERR", msg |-> m] : m \in {"URL MISSING", "timeout"}}

\* the {code, msg} a rejection reason carries: the object itself, or the object whose
\* JSON text the reason is
ErrorInfoOf(reason) ==
    IF Has(reason, "string")
    THEN IF \E o \in ErrorInfos : JSONstringify(o) = reason
         THEN CHOOSE o \in ErrorInfos : JSONstringify(o) = reason
         ELSE [code |-> Undefined, msg |-> Undefined]
    ELSE reason

RejectedWith(code, msg) ==
    /\ Outcome.state = "rejected"
    /\ ErrorInfoOf(Outcome.reason).code = code
    /\ ErrorInfoOf(Outcome.reason).msg = msg

\* attempt i was answered by a 3xx response that carries a location header
RedirectAnswer(i) ==
    /\ attempts[i].statusCode \in 300..399
    /\ Has(attempts[i].headers, "location")

\* the redirect answered to attempt i was followed
WasFollowed(i) == attempts[i].abortedBy = "redirect" /\ i < Len(attempts)

InFlight(i) == attempts[i].state \in {"issued", "response"}

-----------------------------------------------------------------------------
(* Properties *)

\* C1: with maxRedirects = N and followRedirect true, every 3xx-with-location answer to
\* one of the first N attempts is followed, one to attempt N+1 is not and no further
\* attempt is issued, and when attempt N+1 is answered by a 2xx that completes, the
\* call resolves with that response.
C1_FollowsExactlyN ==
    (Called /\ Has(given, "maxRedirects") /\ requestOptions.followRedirect) =>
        LET N == given.maxRedirects
        IN  /\ \A i \in DOMAIN attempts :
                    RedirectAnswer(i) => (WasFollowed(i) <=> i <= N)
            /\ \A i \in DOMAIN attempts :
                    (RedirectAnswer(i) /\ i = N + 1) => Len(attempts) = N + 1
            /\ (/\ Len(attempts) = N + 1
                /\ attempts[N + 1].statusCode \in 200..299
                /\ attempts[N + 1].state = "ended")
               => /\ Outcome = Fulfilled(RequestResult(attempts[N + 1]))
                  /\ \A i \in 1..N : WasFollowed(i)

C1_Witness ==
    /\ Has(given, "maxRedirects") /\ given.maxRedirects = 2
    /\ Len(attempts) = 3
    /\ Outcome.state = "fulfilled" /\ Outcome.value.status = 200

\* C2: a resolved call delivers the response of an attempt whose redirect was not
\* followed and whose status is outside [400,600); every 4xx/5xx response leaves the
\* call rejected, also after that response's 'end' handler has called resolve.
C2_ResolvedIsNotErrorNorFollowed ==
    /\ Outcome.state = "fulfilled" =>
            /\ settler.handler = "end"
            /\ settler.attempt \in DOMAIN attempts
            /\ Outcome.value.status = attempts[settler.attempt].statusCode
            /\ ~WasFollowed(settler.attempt)
            /\ attempts[settler.attempt].abortedBy # "redirect"
            /\ ~(Outcome.value.status >= 400 /\ Outcome.value.status < 600)
    /\ \A i \in DOMAIN attempts :
            (attempts[i].statusCode >= 400 /\ attempts[i].statusCode < 600)
                => Outcome.state = "rejected"

C2_Witness ==
    \E i \in DOMAIN attempts :
        /\ attempts[i].statusCode = 500
        /\ attempts[i].ended
        /\ Outcome.state = "rejected"

\* C3: a call whose url is absent or null rejects with code "ERR" and message
\* "URL MISSING" (delivered as JSON text), and no network request is issued.
C3_UrlMissing ==
    (Called /\ (~Has(given, "url") \/ given.url = Null)) =>
        /\ RejectedWith("ERR", "URL MISSING")
        /\ attempts = <<>>

C3_Witness ==
    /\ Called /\ ~Has(given, "url")
    /\ settler.handler = "executor"
    /\ Outcome.state = "rejected"

\* the socket timeout of attempt i fires in this step
TimeoutFires(i) ==
    /\ i \in DOMAIN attempts
    /\ attempts[i].abortedBy # "timeout"
    /\ attempts'[i].abortedBy = "timeout"

\* C4: when an attempt's socket timeout fires while the call is unsettled, the request
\* is aborted and the call rejects with code "ERR" and message "timeout" (delivered as
\* JSON text); once rejected so, no later event of any request changes the outcome.
C4_TimeoutRejects ==
    [][ /\ \A i \in DOMAIN attempts :
              (TimeoutFires(i) /\ Outcome.state = "pending") =>
                  /\ ~InFlight(i)' /\ attempts'[i].state = "aborted"
                  /\ Outcome'.state = "rejected"
                  /\ ErrorInfoOf(Outcome'.reason) = [code |-> "ERR", msg |-> "timeout"]
        /\ settler.handler = "timeout" =>
              /\ ErrorInfoOf(Outcome.reason) = [code |-> "ERR", msg |-> "timeout"]
              /\ Outcome' = Outcome
              /\ settler' = settler ]_vars

C4_Witness ==
    /\ settler.handler = "timeout"
    /\ RejectedWith("ERR", "timeout")
    /\ attempts[settler.attempt].abortedBy = "timeout"
    /\ attempts[settler.attempt].ended
    /\ attempts[settler.attempt].errored

\* C5: after a redirect was followed the caller's promise has exactly the outcome of the
\* promise of the last attempt: pending while that is pending, the same value or reason
\* once it is settled, settled by a handler of the last attempt, never a 3xx result of an
\* attempt that was followed and never a promise.
C5_OutcomeOfLastAttempt ==
    Len(promises) >= 2 =>
        LET last == Len(promises)
        IN  /\ IsSettled(promises[1]) <=> IsSettled(promises[last])
            /\ IsSettled(promises[last]) =>
                    /\ promises[1] = promises[last]
                    /\ settler.attempt = last
            /\ promises[last].state # "following"
            /\ Outcome.state = "fulfilled" =>
                    /\ Has(Outcome.value, "status")
                    /\ Outcome.value = RequestResult(attempts[last])

C5_Witness ==
    /\ Len(promises) = 3
    /\ Outcome.state = "rejected"
    /\ settler = [attempt |-> 3, handler |-> "error"]

\* C6: a 4xx response rejects the call with code "ERR" and message "CLIENT ERROR: <status>",
\* a response with status >= 500 with "SERVER ERROR: <status>"; the response callback
\* itself issues the rejection (before any chunk is consumed) and no further attempt is made.
C6_ErrorStatusRejects ==
    \A i \in DOMAIN attempts :
        LET status == attempts[i].statusCode
        IN  /\ (status >= 400 /\ status < 500) =>
                    Outcome = Rejected([code |-> "ERR", msg |-> "CLIENT ERROR: " \o ToString(status)])
            /\ status >= 500 =>
                    Outcome = Rejected([code |-> "ERR", msg |-> "SERVER ERROR: " \o ToString(status)])
            /\ status >= 400 =>
                    /\ settler = [attempt |-> i, handler |-> "response"]
                    /\ Len(attempts) = i

C6_Witness ==
    \E i \in DOMAIN attempts :
        /\ attempts[i].statusCode = 400
        /\ Len(attempts[i].body) = 2 /\ attempts[i].ended
        /\ settler.handler = "response"
        /\ Outcome.reason.msg = "CLIENT ERROR: 400"

\* C7: at most one request is in flight; every attempt but the last was aborted by the
\* redirect handler.
C7_OneInFlight ==
    /\ Cardinality({i \in DOMAIN attempts : InFlight(i)}) <= 1
    /\ \A i \in DOMAIN attempts :
            i < Len(attempts) => (attempts[i].state = "aborted" /\ attempts[i].abortedBy = "redirect")

C7_Witness ==
    /\ Len(attempts) = 3
    /\ InFlight(3)
    /\ attempts[3].state = "response"

\* C8: the caller's promise, once settled, never changes, whatever events follow; and a
\* resolved call never carries the response of an attempt that the redirect handler or the
\* timeout handler aborted.
C8_SettledOnce ==
    [][ /\ Outcome.state \in {"fulfilled", "rejected"} => Outcome' = Outcome
        /\ Outcome'.state = "fulfilled" =>
              /\ settler'.attempt \in DOMAIN attempts'
              /\ attempts'[settler'.attempt].abortedBy = "none"
              /\ Outcome'.value = RequestResult(attempts'[settler'.attempt]) ]_vars

C8_Witness ==
    /\ Len(attempts) = 2
    /\ attempts[1].abortedBy = "redirect" /\ attempts[1].errored
    /\ attempts[2].errored /\ attempts[2].ended
    /\ Outcome.state = "rejected"
    /\ settler = [attempt |-> 2, handler |-> "response"]

\* C9: for a call started with maxRedirects >= 0 the counter stays >= 0; it drops by
\* exactly 1, from a value > 0, in the steps that follow a redirect (issue a further
\* attempt), and is unchanged in every other step.
C9_CounterNeverNegative ==
    [][ (Has(given, "maxRedirects") /\ given.maxRedirects >= 0) =>
            /\ requestOptions.maxRedirects >= 0
            /\ requestOptions'.maxRedirects >= 0
            /\ IF Called /\ Len(attempts') = Len(attempts) + 1
               THEN /\ requestOptions.maxRedirects > 0
                    /\ requestOptions'.maxRedirects = requestOptions.maxRedirects - 1
               ELSE /\ requestOptions'.maxRedirects = requestOptions.maxRedirects
                    /\ Len(attempts') = Len(attempts) \/ ~Called ]_vars

C9_Witness ==
    /\ Has(given, "maxRedirects") /\ given.maxRedirects = 2
    /\ requestOptions.maxRedirects = 0
    /\ Len(attempts) = 3
    /\ RedirectAnswer(3)

\* C10: a call started with maxRedirects = N >= 0 issues at most N + 1 network attempts,
\* also when every response is a 3xx with a location header (and at most
\* DefaultMaxRedirects + 1 when maxRedirects is left out).
C10_AtMostNPlusOneAttempts ==
    /\ Has(given, "maxRedirects") => Len(attempts) <= given.maxRedirects + 1
    /\ Len(attempts) <= DefaultMaxRedirects + 1
    /\ Called => Len(attempts) + requestOptions.maxRedirects
                    = 1 + (IF Has(given, "maxRedirects") THEN given.maxRedirects ELSE DefaultMaxRedirects)
                  \/ attempts = <<>>

C10_Witness ==
    /\ Has(given, "maxRedirects") /\ given.maxRedirects = 1
    /\ Len(attempts) = 2
    /\ \A i \in DOMAIN attempts : RedirectAnswer(i)
    /\ attempts[2].ended

\* C11: every rejection value the caller receives is an object with a code field and a
\* msg field, whichever failure caused it.
C11_RejectionIsErrorInfo ==
    Outcome.state = "rejected" =>
        /\ Has(Outcome.reason, "code")
        /\ Has(Outcome.reason, "msg")

\* a rejection whose value is a string: the timeout (and the missing url)
C11_Witness ==
    /\ Outcome.state = "rejected"
    /\ settler.handler = "timeout"
    /\ Has(Outcome.reason, "string")

\* the text a concatenation of the chunks b[1..n] in arrival order
RECURSIVE ConcatUpTo(_, _)
ConcatUpTo(b, n) == IF n = 0 THEN "" ELSE ConcatUpTo(b, n - 1) \o b[n]

\* C12: a response that is collected (not a followed redirect, status below 400) and
\* whose stream completes undisturbed resolves the call with its status and with the
\* chunks concatenated in arrival order; while its stream is still open the call
\* is not resolved.
C12_BodyIsConcatenation ==
    \A i \in DOMAIN attempts :
        (attempts[i].listening /\ attempts[i].statusCode < 400) =>
            /\ attempts[i].state = "ended" =>
                    /\ Outcome.state = "fulfilled"
                    /\ Outcome.value.status = attempts[i].statusCode
                    /\ Outcome.value.body = ConcatUpTo(attempts[i].body, Len(attempts[i].body))
            /\ ~attempts[i].ended => Outcome.state # "fulfilled"

C12_Witness ==
    /\ Outcome.state = "fulfilled"
    /\ Outcome.value.status = 200
    /\ Outcome.value.body = "abcd"
    /\ attempts[settler.attempt].body = <<"ab", "cd">>

\* the request of attempt i emits 'error' in this step
ErrorReported(i) ==
    /\ i \in DOMAIN attempts
    /\ ~attempts[i].errored
    /\ attempts'[i].errored

\* C16: when the request in flight reports an error while the call is unsettled, the call
\* rejects with code = the error's code and msg = the error's syscall, and neither that
\* step nor any later one issues a further attempt.
C16_TransportErrorRejects ==
    [][ /\ \A i \in DOMAIN attempts :
              (ErrorReported(i) /\ InFlight(i) /\ Outcome.state = "pending") =>
                  /\ \E e \in TransportErrors :
                        Outcome' = Rejected([code |-> e.code, msg |-> e.syscall])
                  /\ settler' = [attempt |-> i, handler |-> "error"]
                  /\ Len(attempts') = Len(attempts)
        /\ settler.handler = "error" =>
              /\ Len(attempts') = Len(attempts)
              /\ Outcome' = Outcome ]_vars

C16_Witness ==
    /\ settler.handler = "error"
    /\ Outcome.state = "rejected"
    /\ Outcome.reason = [code |-> "ECONNREFUSED", msg |-> "connect"]
    /\ Len(attempts) = 2

\* attempt i receives, in this step, a 3xx response that is not to be followed
UnfollowedRedirect(i) ==
    /\ i \in DOMAIN attempts
    /\ attempts[i].state = "issued"
    /\ attempts'[i].statusCode \in 300..399
    /\ \/ ~requestOptions.followRedirect
       \/ requestOptions.maxRedirects = 0
       \/ ~Has(attempts'[i].headers, "location")

\* C17: a 3xx response that is not followed (followRedirect false, maxRedirects 0 or no
\* location header) issues no attempt, leaves the options and so maxRedirects unchanged,
\* does not abort the request and has its body collected; when its stream completes
\* the call resolves with the 3xx status and the collected body.
C17_UnfollowedRedirectIsNormal ==
    [][ \A i \in DOMAIN attempts :
          /\ UnfollowedRedirect(i) =>
                /\ Len(attempts') = Len(attempts)
                /\ requestOptions' = requestOptions
                /\ attempts'[i].state = "response"
                /\ attempts'[i].abortedBy = "none"
                /\ attempts'[i].listening
          /\ (/\ i \in DOMAIN attempts'
              /\ attempts'[i].statusCode \in 300..399
              /\ attempts'[i].state = "ended") =>
                Outcome' = Fulfilled([status |-> attempts'[i].statusCode,
                                      headers |-> StringifyHeaders(attempts'[i].headers),
                                      body |-> ConcatUpTo(attempts'[i].body, Len(attempts'[i].body))]) ]_vars

C17_Witness ==
    /\ Has(given, "followRedirect") /\ ~given.followRedirect
    /\ Len(attempts) = 1
    /\ Has(attempts[1].headers, "location")
    /\ Outcome.state = "fulfilled"
    /\ Outcome.value.status = 300
    /\ Outcome.value.body = "cd"

\* C19: after a relative redirect (location without a hostname) is followed, the next
\* attempt goes to the same hostname, over the same transport and to the same port.
C19_RelativeRedirectKeepsOrigin ==
    \A i \in DOMAIN attempts :
        (WasFollowed(i) /\ urlParse(attempts[i].headers.location).hostname = Undefined) =>
            /\ attempts[i + 1].options.hostname = attempts[i].options.hostname
            /\ attempts[i + 1].options.lib = attempts[i].options.lib
            /\ attempts[i + 1].options.port = attempts[i].options.port

\* a relative redirect followed from an https url
C19_Witness ==
    /\ Len(attempts) >= 2
    /\ WasFollowed(1)
    /\ urlParse(attempts[1].headers.location).hostname = Undefined
    /\ attempts[1].options.lib = "https"
    /\ attempts[2].options.lib = "http"
    /\ attempts[2].options.port = "80"
    /\ attempts[2].options.path = "/r"

\* no request is in flight and no response stream is open
Quiescent == \A i \in DOMAIN attempts : ~InFlight(i)

\* C20: a call with a url settles: no state has every attempt finished or aborted and
\* the caller's promise pending, and under fair delivery of the events a call that
\* was made is eventually settled.
C20_EventuallySettles ==
    /\ []((Called /\ Quiescent) => IsSettled(Outcome))
    /\ (Called /\ requestOptions.url # Null) ~> IsSettled(Outcome)

C20_Witness ==
    /\ Len(attempts) = 3
    /\ Quiescent
    /\ Outcome.state = "rejected"
    /\ settler = [attempt |-> 3, handler |-> "timeout"]

\* the caller asks for a GET (method left out, or "get" in either case)
GivenGet == ~Has(given, "method") \/ given.method \in {"get", "GET"}

GivenJson == Has(given, "contentType") /\ given.contentType \in {"json", "JSON"}

\* C13: a request that is not a GET, has a body and contentType JSON is sent with
\* Content-Type application/json and Content-Length equal to the number of bytes of the
\* JSON text of the body.
C13_JsonContentLength ==
    \A i \in DOMAIN attempts :
        (~GivenGet /\ Has(given, "body") /\ GivenJson) =>
            /\ attempts[i].options.headers["Content-Type"] = "application/json"
            /\ attempts[i].options.headers["Content-Length"]
                    = ByteLength(attempts[i].written.postData)

\* a JSON body with a two-byte character: 17 characters, 18 bytes
C13_Witness ==
    /\ Len(attempts) = 1
    /\ ~GivenGet /\ GivenJson /\ Has(given, "body")
    /\ attempts[1].options.headers["Content-Type"] = "application/json"
    /\ "U+00E9" \in Chars(attempts[1].written.postData)
    /\ attempts[1].options.headers["Content-Length"] = 17
    /\ ByteLength(attempts[1].written.postData) = 18

\* C14: for a GET with a non-empty body every attempt, also one issued after a redirect,
\* has as path the path of its url followed by '?' and the url-encoded body, and writes
\* no payload.
C14_GetBodyIsQueryString ==
    \A i \in DOMAIN attempts :
        (GivenGet /\ Has(given, "body") /\ given.body.pairs # <<>>) =>
            /\ attempts[i].options.path
                    = attempts[i].url.path \o "?" \o QueryString(given.body.pairs)
            /\ attempts[i].written = Null
            /\ attempts[i].options.method = "GET"

C14_Witness ==
    /\ Len(attempts) = 2
    /\ Has(given, "method") /\ given.method = "get"
    /\ attempts[1].options.path = "/p?m=%C3%A9&n=1"
    /\ attempts[2].options.path = "/r?m=%C3%A9&n=1"
    /\ attempts[2].written = Null

\* attempt i was reached without following an absolute redirect to an https location
NoHttpsRedirectBefore(i) ==
    \A j \in 1..(i - 1) : attempts[j].headers.location.scheme # "https://"

\* C15: an attempt whose url has no http:// or https:// prefix uses the http transport
\* and port 80, or the port the url names; so does every attempt of a call whose url
\* has no prefix until an absolute redirect to https is followed.  With a prefix and no
\* port the port is 80 for http and 443 for https, and the https transport is used
\* exactly when the prefix is https://.
C15_TransportAndPort ==
    \A i \in DOMAIN attempts :
        LET u == attempts[i].url
            o == attempts[i].options
        IN  /\ u.scheme = "" =>
                    /\ o.lib = "http"
                    /\ o.port = (IF u.port = "" THEN "80" ELSE u.port)
            /\ (given.url.scheme = "" /\ NoHttpsRedirectBefore(i)) =>
                    /\ o.lib = "http"
                    /\ o.port = (IF u.port = "" THEN "80" ELSE u.port)
            /\ (u.scheme = "http://" /\ u.port = "") => o.port = "80"
            /\ (u.scheme = "https://" /\ u.port = "") => o.port = "443"
            /\ u.scheme # "" => (o.lib = "https" <=> u.scheme = "https://")

C15_Witness ==
    /\ Len(attempts) = 3
    /\ given.url.scheme = "" /\ given.url.port = "8080"
    /\ attempts[1].options.lib = "http" /\ attempts[1].options.port = "8080"
    /\ attempts[2].url.scheme = "" /\ attempts[2].options.port = "80"
    /\ attempts[3].options.lib = "https" /\ attempts[3].options.port = "443"

\* lines 53-60 and 74-76 together: what one invocation makes of the options before it
\* resolves the call
Normalized(o) ==
    LET n == Normalize(o)
    IN  IF n.url = Null THEN n ELSE [n EXCEPT !.url = Backfill(@)]

\* C18: normalising twice gives what normalising once gives, for the options as passed
\* and for the options object as every invocation leaves it (which the next hop
\* normalises again).
C18_NormalizeIdempotent ==
    (Has(given, "url") /\ given.url # Null) =>
        /\ Normalized(Normalized(given)) = Normalized(given)
        /\ Called => Normalized(requestOptions) = requestOptions
        /\ Len(attempts) = 1 =>
                [requestOptions EXCEPT !.headers = Absent] = Normalized(given)

C18_Witness ==
    /\ Len(attempts) = 2
    /\ Has(given, "method") /\ given.method = "post"
    /\ requestOptions.method = "POST"
    /\ Has(given, "contentType") /\ given.contentType = "json"
    /\ requestOptions.contentType = "JSON"
    /\ given.url.scheme = ""
    /\ attempts[2].url.scheme = "" /\ requestOptions.url.scheme = "http://"

====
